---- MODULE Spec2Model ----
(***************************************************************************)
(* Model of src/hooks/useWindow.ts: the useWindowResize hook (window       *)
(* height controller) and the useWindowFocus hook (focus bridge).          *)
(*                                                                         *)
(* JavaScript runs handlers to completion, so every action below is one    *)
(* run-to-completion step of the event loop: a handler up to its first     *)
(* await, the continuation of an await, a timer callback, or a step of the *)
(* host (the Tauri backend, the DOM, the clock).                           *)
(***************************************************************************)
EXTENDS Integers, Sequences, FiniteSets

(* ---- bounds of the model ---- *)
MaxPending == 2      \* pending timers plus suspended resizeWindow calls at once
MaxPopovers == 1     \* overlay wrapper elements in the DOM at once
MaxNotes == 3        \* focus-change notifications delivered in a behaviour

(* ---- program constants ---- *)
ExpandedHeight == 600
CollapsedHeight == 54
DragDelay == 100
DebounceDelay == 150
\* the clock advances in steps of the largest unit that divides both delays
TickMs == DebounceDelay - DragDelay

VARIABLES
  (* useWindowResize *)
  effect,              \* "mounted" | "unmounted": the effect of lines 44-103
  currentExpandedRef,  \* "null" | "true" | "false" (line 15)
  popovers,            \* elements matching [data-radix-popper-content-wrapper]
  isDragging,          \* line 45
  debounceTimeout,     \* line 46: "null" | "handle" (the handle of some timer)
  timers,              \* the pending timers of the page, oldest first; the
                       \* one whose handle debounceTimeout holds is marked held
  calls,               \* resizeWindow calls suspended at line 32, in call order
  hostHeight,          \* height the host window was last set to (0: never set)
  last,                \* history: the most recent resizeWindow invocation
  sinceBatch,          \* history: time since the observer callback last ran
  burst,               \* history: 0 none yet, 1 the last batch came alone,
                       \* 2 it came less than DebounceDelay after another
  mutation,            \* history, kept where the DOM is watched (WatchedSpec):
                       \* the DOM mutation that happened last
  (* useWindowFocus *)
  focusEffect,         \* "idle" | "mounted" | "unmounted": effect of lines 128-152
  onFocusGained,       \* is the option provided
  onFocusLost,         \* is the option provided
  setup,               \* setupFocusListener: "none" not called, "pending" awaiting
                       \* onFocusChanged, "registered" the host has registered the
                       \* listener, "resolved" line 136 assigned unlisten,
                       \* "failed" the catch block ran, "escaped" it threw
  unlisten,            \* line 129: "null" | "fn"
  subscribed,          \* the host holds an active focus listener of this mount
  subscribeCalls,      \* calls of window.onFocusChanged
  unlistenCalls,       \* calls of the unlisten function
  notes,               \* payloads of the notifications delivered, in order
  invoked              \* callbacks invoked, in order: "gained" | "lost"

resizeVars == <<effect, currentExpandedRef, popovers, isDragging,
                debounceTimeout, timers, calls, hostHeight, last, sinceBatch, burst,
                mutation>>
focusVars == <<focusEffect, onFocusGained, onFocusLost, setup, unlisten,
               subscribed, subscribeCalls, unlistenCalls, notes, invoked>>
vars == <<resizeVars, focusVars>>

(***************************************************************************)
(* useWindowResize                                                         *)
(***************************************************************************)

\* lines 6-11
IsAnyPopoverOpen == popovers > 0

\* the value `expanded` is compared with and stored as in the ref
RefOf(expanded) == IF expanded THEN "true" ELSE "false"

\* line 21: the overlay guard
\* (faulty variant: the guard never stops a call)
OverlayGuardOff(expanded) == FALSE
OverlayGuard(expanded) == ~expanded /\ IsAnyPopoverOpen

\* line 26: the same-state guard
\* (faulty variant: the guard never stops a call)
SameStateGuardOff(expanded) == FALSE
\* (faulty variant: null is taken for collapsed, as !!current === expanded would)
SameStateGuardNullCollapsed(expanded) ==
  (IF currentExpandedRef = "true" THEN "true" ELSE "false") = RefOf(expanded)
SameStateGuard(expanded) == currentExpandedRef = RefOf(expanded)

\* line 30
\* (faulty variant: the two heights exchanged)
NewHeightSwapped(expanded) == IF expanded THEN CollapsedHeight ELSE ExpandedHeight
NewHeight(expanded) == IF expanded THEN ExpandedHeight ELSE CollapsedHeight

(* lines 17-32: how far resizeWindow(expanded) gets before it returns or     *)
(* suspends: "overlay" (line 22), "same" (line 27), "sent" (line 32).        *)
ResizeOutcome(expanded) ==
  IF OverlayGuard(expanded) THEN "overlay"
  ELSE IF SameStateGuard(expanded) THEN "same"
  ELSE "sent"

\* the sequence s without its i-th element
RemoveAt(s, i) == SubSeq(s, 1, i - 1) \o SubSeq(s, i + 1, Len(s))

\* timers and host commands outstanding
Outstanding == Len(timers) + Len(calls)

(* lines 17-32: resizeWindow(expanded) invoked by origin ("api": a caller of *)
(* the hook, "drag" / "debounce": a timer callback), ts being the timers     *)
(* pending when it runs.  A call that reaches line 32 issues its command and *)
(* joins calls.                                                              *)
ResizeWindow(expanded, origin, ts) ==
  LET st == ResizeOutcome(expanded)
  IN  /\ st = "sent" => Len(ts) + Len(calls) < MaxPending
      /\ calls' = IF st = "sent"
                  THEN Append(calls, [expanded |-> expanded, status |-> "sent",
                                      height |-> NewHeight(expanded)])
                  ELSE calls
      /\ last' = [expanded |-> expanded, origin |-> origin, status |-> st]

\* is calls[i] the most recent invocation
IsLast(i) == i = Len(calls) /\ last.status \in {"sent", "applied"}

\* a caller of the hook invokes resizeWindow(expanded)
RequestResize(expanded) ==
  /\ ResizeWindow(expanded, "api", timers)
  /\ UNCHANGED <<effect, currentExpandedRef, popovers, isDragging,
                 debounceTimeout, timers, hostHeight, sinceBatch, burst>>
  /\ UNCHANGED <<mutation, focusVars>>

\* the host executes set_window_height of call i and sets the window height
HostApply(i) ==
  /\ i \in 1..Len(calls)
  /\ calls[i].status = "sent"
  /\ calls' = [calls EXCEPT ![i].status = "applied"]
  /\ hostHeight' = calls[i].height
  /\ last' = IF IsLast(i) THEN [last EXCEPT !.status = "applied"] ELSE last
  /\ UNCHANGED <<effect, currentExpandedRef, popovers, isDragging,
                 debounceTimeout, timers, sinceBatch, burst>>
  /\ UNCHANGED <<mutation, focusVars>>

\* line 37: the ref after the await of call c resumed normally
RefAfterResolve(c) == RefOf(c.expanded)

\* lines 38-40: the ref after the await of call c threw
\* (faulty variant: the ref is stored although the command failed)
RefAfterRejectStored(c) == RefOf(c.expanded)
RefAfterReject(c) == currentExpandedRef

\* lines 18, 38-40: how a call whose await threw ends ("err": caught and logged)
RejectedEnds == "err"

\* lines 32-37: invoke resolved, the continuation of call i runs
InvokeResolved(i) ==
  /\ i \in 1..Len(calls)
  /\ calls[i].status = "applied"
  /\ calls' = RemoveAt(calls, i)
  /\ currentExpandedRef' = RefAfterResolve(calls[i])
  /\ last' = IF IsLast(i) THEN [last EXCEPT !.status = "ok"] ELSE last
  /\ UNCHANGED <<effect, popovers, isDragging, debounceTimeout, timers,
                 hostHeight, sinceBatch, burst>>
  /\ UNCHANGED <<mutation, focusVars>>

\* lines 32, 38-40: the host fails the command of call i, invoke rejects and
\* the catch block runs
InvokeRejected(i) ==
  /\ i \in 1..Len(calls)
  /\ calls[i].status = "sent"
  /\ calls' = RemoveAt(calls, i)
  /\ currentExpandedRef' = RefAfterReject(calls[i])
  /\ last' = IF IsLast(i) THEN [last EXCEPT !.status = RejectedEnds] ELSE last
  /\ UNCHANGED <<effect, popovers, isDragging, debounceTimeout, timers,
                 hostHeight, sinceBatch, burst>>
  /\ UNCHANGED <<mutation, focusVars>>

(* ---- timers (setTimeout / clearTimeout of the page) ---- *)

\* the delay each kind of timer is armed with (lines 65 and 80)
\* (faulty variant: each delay one tick short)
DelayShort(kind) == IF kind = "drag" THEN DragDelay - TickMs ELSE DebounceDelay - TickMs
Delay(kind) == IF kind = "drag" THEN DragDelay ELSE DebounceDelay

\* setTimeout(callback, Delay(kind)): ts with the new timer; held tells
\* whether the handle it returns is assigned to debounceTimeout, which then
\* holds no other timer's handle
SetTimeout(ts, kind, held) ==
  Append(IF held THEN [i \in 1..Len(ts) |-> [ts[i] EXCEPT !.held = FALSE]] ELSE ts,
         [kind |-> kind, age |-> 0, held |-> held])

\* clearTimeout(debounceTimeout): the timer whose handle it is, if it is still
\* pending, is cancelled
ClearHeld(ts) == SelectSeq(ts, LAMBDA t : ~t.held)

\* lines 48-55
MouseDown(inDragRegion) ==
  /\ effect = "mounted"
  /\ isDragging' = (IF inDragRegion THEN TRUE ELSE isDragging)
  /\ UNCHANGED <<effect, currentExpandedRef, popovers, debounceTimeout, timers,
                 calls, hostHeight, last, sinceBatch, burst>>
  /\ UNCHANGED <<mutation, focusVars>>

\* line 58: does this pointer-up end a drag
\* (faulty variant: every pointer-up is taken for the end of a drag)
DragReleasedAlways == TRUE
DragReleased == isDragging

\* lines 57-67
MouseUp ==
  /\ effect = "mounted"
  /\ IF DragReleased
     THEN /\ Outstanding < MaxPending
          /\ isDragging' = FALSE
          /\ timers' = SetTimeout(timers, "drag", FALSE)
     ELSE UNCHANGED <<isDragging, timers>>
  /\ UNCHANGED <<effect, currentExpandedRef, popovers, debounceTimeout, calls,
                 hostHeight, last, sinceBatch, burst>>
  /\ UNCHANGED <<mutation, focusVars>>

(* lines 85-90: the options the observer is registered with on document.body *)
ObserveChildList == TRUE
ObserveSubtree == FALSE
ObserveAttributes == TRUE
AttributeFilter == {"data-state"}

(* A DOM mutation: a child-list change of a node or an attribute change of a *)
(* node; the node is document.body or a descendant of it; a child-list       *)
(* change may insert or remove one overlay wrapper element (delta).          *)
Mutations ==
  [type : {"childList"}, onBody : BOOLEAN, attr : {"none"}, delta : {-1, 0, 1}]
  \cup
  [type : {"attributes"}, onBody : BOOLEAN, attr : {"data-state", "other"}, delta : {0}]

\* no mutation yet
NoMutation == [type |-> "none", onBody |-> FALSE, attr |-> "none", delta |-> 0]

\* does the observer of lines 85-90 report mutation m (MutationObserver rules)
Observed(m) ==
  /\ m.onBody \/ ObserveSubtree
  /\ \/ m.type = "childList" /\ ObserveChildList
     \/ m.type = "attributes" /\ ObserveAttributes /\ m.attr \in AttributeFilter

\* lines 72-74: the timers after the callback cancelled the pending debounce
\* (faulty variant: the pending debounce timer is not cancelled)
AfterDebounceClearKept == timers
AfterDebounceClear ==
  IF debounceTimeout # "null" THEN ClearHeld(timers) ELSE timers

(* The DOM changes by mutation m; when the observer is connected and reports *)
(* it, the callback of lines 69-81 runs (as a microtask of the same turn).   *)
(* The history variable mutation is set by the specification.                *)
DomMutation(m) ==
  /\ m \in Mutations
  /\ popovers + m.delta \in 0..MaxPopovers
  /\ popovers' = popovers + m.delta
  /\ IF effect = "mounted" /\ Observed(m)
     THEN /\ Len(AfterDebounceClear) + Len(calls) < MaxPending
          /\ timers' = SetTimeout(AfterDebounceClear, "debounce", TRUE)
          /\ debounceTimeout' = "handle"
          /\ sinceBatch' = 0
          /\ burst' = IF burst > 0 /\ sinceBatch < DebounceDelay THEN 2 ELSE 1
     ELSE UNCHANGED <<timers, debounceTimeout, sinceBatch, burst>>
  /\ UNCHANGED <<effect, currentExpandedRef, isDragging, calls, hostHeight, last>>
  /\ UNCHANGED focusVars

\* the clock advances by TickMs (times stop counting at DebounceDelay, when
\* every timer is due)
Tick ==
  /\ \/ \E h \in 1..Len(timers) : timers[h].age < DebounceDelay
     \/ sinceBatch < DebounceDelay
  /\ timers' = [h \in 1..Len(timers) |->
                  IF timers[h].age < DebounceDelay
                  THEN [timers[h] EXCEPT !.age = @ + TickMs]
                  ELSE timers[h]]
  /\ sinceBatch' = IF sinceBatch < DebounceDelay THEN sinceBatch + TickMs ELSE sinceBatch
  /\ UNCHANGED <<effect, currentExpandedRef, popovers, isDragging,
                 debounceTimeout, calls, hostHeight, last, burst>>
  /\ UNCHANGED <<mutation, focusVars>>

\* lines 62 and 77: does the timer callback call resizeWindow(false)
\* (faulty variant: the overlay test inverted)
CallbackCallsInverted == IsAnyPopoverOpen
CallbackCalls == ~IsAnyPopoverOpen

\* lines 63 and 78: the argument the timer callbacks pass to resizeWindow
\* (faulty variant: the callbacks request the expanded state)
CallbackTargetExpanded == TRUE
CallbackTarget == FALSE

(* lines 61-65 and 76-80: timer h is due and its callback runs *)
FireTimer(h) ==
  /\ h \in 1..Len(timers)
  /\ timers[h].age >= Delay(timers[h].kind)
  /\ timers' = RemoveAt(timers, h)
  /\ IF CallbackCalls
     THEN ResizeWindow(CallbackTarget, timers[h].kind, timers')
     ELSE UNCHANGED <<calls, last>>
  /\ UNCHANGED <<effect, currentExpandedRef, popovers, isDragging, hostHeight,
                 debounceTimeout, sinceBatch, burst>>
  /\ UNCHANGED <<mutation, focusVars>>

\* lines 99-101: the timers after the cleanup
AfterCleanup ==
  IF debounceTimeout # "null" THEN ClearHeld(timers) ELSE timers

\* lines 95-102: the effect cleanup (the view unmounts)
Unmount ==
  /\ effect = "mounted"
  /\ effect' = "unmounted"
  /\ timers' = AfterCleanup
  /\ UNCHANGED <<currentExpandedRef, popovers, isDragging, debounceTimeout, calls,
                 hostHeight, last, sinceBatch, burst>>
  /\ UNCHANGED <<mutation, focusVars>>

ResizeInit ==
  /\ effect = "mounted"
  /\ currentExpandedRef = "null"
  /\ popovers = 0
  /\ isDragging = FALSE
  /\ debounceTimeout = "null"
  /\ timers = <<>>
  /\ calls = <<>>
  /\ hostHeight = 0
  /\ last = [expanded |-> FALSE, origin |-> "none", status |-> "none"]
  /\ sinceBatch = DebounceDelay
  /\ burst = 0
  /\ mutation = NoMutation

FocusIdle ==
  /\ focusEffect = "idle"
  /\ setup = "none"
  /\ unlisten = "null"
  /\ subscribed = FALSE
  /\ subscribeCalls = 0
  /\ unlistenCalls = 0
  /\ notes = <<>>
  /\ invoked = <<>>

Init ==
  /\ ResizeInit
  /\ FocusIdle
  /\ onFocusGained = FALSE
  /\ onFocusLost = FALSE

Next ==
  \/ \E expanded \in BOOLEAN : RequestResize(expanded)
  \/ \E i \in 1..MaxPending : HostApply(i)
  \/ \E i \in 1..MaxPending : InvokeResolved(i)
  \/ \E i \in 1..MaxPending : InvokeRejected(i)
  \/ \E inDragRegion \in BOOLEAN : MouseDown(inDragRegion)
  \/ MouseUp
  \/ \E m \in Mutations : DomMutation(m) /\ UNCHANGED mutation
  \/ Tick
  \/ \E h \in 1..MaxPending : FireTimer(h)
  \/ Unmount

\* the window height controller on its own
Spec == Init /\ [][Next]_vars

(***************************************************************************)
(* useWindowFocus                                                          *)
(***************************************************************************)

\* lines 117-124: the callbacks handleFocusChange(focused) invokes, in order
\* (faulty variant: the two callbacks exchanged)
HandleFocusChangeSwapped(focused) ==
  IF focused /\ onFocusLost THEN <<"lost">>
  ELSE IF ~focused /\ onFocusGained THEN <<"gained">>
  ELSE <<>>
HandleFocusChange(focused) ==
  IF focused /\ onFocusGained THEN <<"gained">>
  ELSE IF ~focused /\ onFocusLost THEN <<"lost">>
  ELSE <<>>

\* lines 132, 139-141: how setupFocusListener ends when its try block throws
SetupFailedEnds == "failed"

(* lines 128-144: the effect runs setupFocusListener up to its await.        *)
(* getCurrentWebviewWindow either throws or returns the window, on which     *)
(* onFocusChanged is called.                                                 *)
FocusMount(windowThrows) ==
  /\ focusEffect = "idle"
  /\ focusEffect' = "mounted"
  /\ IF windowThrows
     THEN /\ setup' = SetupFailedEnds
          /\ UNCHANGED subscribeCalls
     ELSE /\ setup' = "pending"
          /\ subscribeCalls' = subscribeCalls + 1
  /\ UNCHANGED <<onFocusGained, onFocusLost, unlisten, subscribed,
                 unlistenCalls, notes, invoked>>
  /\ UNCHANGED resizeVars

\* the host registers the listener passed to onFocusChanged
HostSubscribes ==
  /\ setup = "pending"
  /\ setup' = "registered"
  /\ subscribed' = TRUE
  /\ UNCHANGED <<focusEffect, onFocusGained, onFocusLost, unlisten,
                 subscribeCalls, unlistenCalls, notes, invoked>>
  /\ UNCHANGED resizeVars

\* line 136: onFocusChanged resolved, its result is assigned to unlisten
SubscribeResolved ==
  /\ setup = "registered"
  /\ setup' = "resolved"
  /\ unlisten' = "fn"
  /\ UNCHANGED <<focusEffect, onFocusGained, onFocusLost, subscribed,
                 subscribeCalls, unlistenCalls, notes, invoked>>
  /\ UNCHANGED resizeVars

\* lines 136, 139-141: onFocusChanged rejected, the catch block runs
SubscribeRejected ==
  /\ setup = "pending"
  /\ setup' = SetupFailedEnds
  /\ UNCHANGED <<focusEffect, onFocusGained, onFocusLost, unlisten, subscribed,
                 subscribeCalls, unlistenCalls, notes, invoked>>
  /\ UNCHANGED resizeVars

\* lines 136-138: the host delivers a focus-change notification to the listener
FocusNotify(focused) ==
  /\ subscribed
  /\ Len(notes) < MaxNotes
  /\ notes' = Append(notes, focused)
  /\ invoked' = invoked \o HandleFocusChange(focused)
  /\ UNCHANGED <<focusEffect, onFocusGained, onFocusLost, setup, unlisten,
                 subscribed, subscribeCalls, unlistenCalls>>
  /\ UNCHANGED resizeVars

\* line 148: does the cleanup call unlisten
\* (faulty variant: unlisten is called without the null check)
CleanupCallsUnlistenAlways == TRUE
CleanupCallsUnlisten == unlisten # "null"

\* lines 147-151: the effect cleanup (the view unmounts)
FocusUnmount ==
  /\ focusEffect = "mounted"
  /\ focusEffect' = "unmounted"
  /\ IF CleanupCallsUnlisten
     THEN /\ unlistenCalls' = unlistenCalls + 1
          /\ subscribed' = FALSE
     ELSE UNCHANGED <<unlistenCalls, subscribed>>
  /\ UNCHANGED <<onFocusGained, onFocusLost, setup, unlisten, subscribeCalls,
                 notes, invoked>>
  /\ UNCHANGED resizeVars

FocusInit ==
  /\ ResizeInit
  /\ FocusIdle
  /\ onFocusGained \in BOOLEAN
  /\ onFocusLost \in BOOLEAN

FocusNext ==
  \/ \E windowThrows \in BOOLEAN : FocusMount(windowThrows)
  \/ HostSubscribes
  \/ SubscribeResolved
  \/ SubscribeRejected
  \/ \E focused \in BOOLEAN : FocusNotify(focused)
  \/ FocusUnmount

\* the focus bridge on its own
FocusSpec == FocusInit /\ [][FocusNext]_vars

(***************************************************************************)
(* The controller when every resizeWindow call completes before the next   *)
(* one starts: resizeWindow is invoked, by a caller or by a timer callback, *)
(* only while no earlier call is suspended at its await.                   *)
(***************************************************************************)
SeqNext ==
  \/ \E expanded \in BOOLEAN : RequestResize(expanded) /\ calls = <<>>
  \/ \E i \in 1..MaxPending : HostApply(i)
  \/ \E i \in 1..MaxPending : InvokeResolved(i)
  \/ \E i \in 1..MaxPending : InvokeRejected(i)
  \/ \E inDragRegion \in BOOLEAN : MouseDown(inDragRegion)
  \/ MouseUp
  \/ \E m \in Mutations : DomMutation(m) /\ UNCHANGED mutation
  \/ Tick
  \/ \E h \in 1..MaxPending : FireTimer(h) /\ (CallbackCalls => calls = <<>>)
  \/ Unmount

SeqSpec == Init /\ [][SeqNext]_vars

(***************************************************************************)
(* The controller when the callers of the hook go away with the view: no   *)
(* caller invokes resizeWindow after the effect cleanup.                   *)
(***************************************************************************)
TeardownNext ==
  \/ \E expanded \in BOOLEAN : RequestResize(expanded) /\ effect = "mounted"
  \/ \E i \in 1..MaxPending : HostApply(i)
  \/ \E i \in 1..MaxPending : InvokeResolved(i)
  \/ \E i \in 1..MaxPending : InvokeRejected(i)
  \/ \E inDragRegion \in BOOLEAN : MouseDown(inDragRegion)
  \/ MouseUp
  \/ \E m \in Mutations : DomMutation(m) /\ UNCHANGED mutation
  \/ Tick
  \/ \E h \in 1..MaxPending : FireTimer(h)
  \/ Unmount

TeardownSpec == Init /\ [][TeardownNext]_vars

(***************************************************************************)
(* The controller with the DOM watched: every DOM mutation is recorded as  *)
(* it happens; the window is resized by the timer callbacks only.          *)
(***************************************************************************)
WatchedNext ==
  \/ \E m \in Mutations : DomMutation(m) /\ mutation' = m
  \/ \E i \in 1..MaxPending : HostApply(i)
  \/ \E i \in 1..MaxPending : InvokeResolved(i)
  \/ \E i \in 1..MaxPending : InvokeRejected(i)
  \/ Tick
  \/ \E h \in 1..MaxPending : FireTimer(h)
  \/ Unmount

WatchedSpec == Init /\ [][WatchedNext]_vars

(***************************************************************************)
(* The controller (calls one after another) with time passing, due timers  *)
(* firing and the host answering: the clock advances; the callback of a    *)
(* due timer runs, at one of the moments at which no call is suspended; a  *)
(* command that stays unanswered is executed, and the continuation of an   *)
(* executed command runs.                                                  *)
(***************************************************************************)
Fairness ==
  /\ WF_vars(Tick)
  /\ \A h \in 1..MaxPending :
       SF_vars(FireTimer(h) /\ (CallbackCalls => calls = <<>>))
  /\ \A i \in 1..MaxPending : WF_vars(HostApply(i)) /\ WF_vars(InvokeResolved(i))

LiveSpec == Init /\ [][SeqNext]_vars /\ Fairness

(***************************************************************************)
(* Vocabulary of the properties                                            *)
(***************************************************************************)

\* the state the host window was last successfully set to
LastApplied ==
  IF hostHeight = 0 THEN "null" ELSE IF hostHeight = 600 THEN "true" ELSE "false"

\* this step issues a host command; NewCommand is the command
Issues == Len(calls') = Len(calls) + 1
NewCommand == calls'[Len(calls')]

\* this step is a resizeWindow invocation that returned at line 22 or line 27
Suppressed == last' # last /\ last'.status \in {"overlay", "same"}

\* this step resumes the await of call i normally / with the rejection
Resolves(i) ==
  /\ i \in 1..Len(calls)
  /\ calls[i].status = "applied"
  /\ calls' = RemoveAt(calls, i)
Rejects(i) ==
  /\ i \in 1..Len(calls)
  /\ calls[i].status = "sent"
  /\ calls' = RemoveAt(calls, i)

\* this step runs the callback of pending timer h, of the given kind
Fires(h, kind) ==
  /\ h \in 1..Len(timers)
  /\ timers[h].kind = kind
  /\ ~timers[h].held \/ effect' = effect
  /\ timers' = RemoveAt(timers, h)

\* this step runs the observer callback
BatchStep == sinceBatch' = 0 /\ (sinceBatch > 0 \/ burst' # burst)

DebounceTimers(ts) == SelectSeq(ts, LAMBDA t : t.kind = "debounce")
DragTimers(ts) == SelectSeq(ts, LAMBDA t : t.kind = "drag")

(***************************************************************************)
(* C1.  When every call completes before the next one starts, a host       *)
(* command is issued only for a target that differs from the state last    *)
(* successfully applied, which is what the ref remembers between calls; a  *)
(* call whose target equals it issues nothing and leaves the ref alone; in *)
(* particular resizeWindow(true) right after a resizeWindow(true) that     *)
(* succeeded (or was itself skipped) issues no second command.             *)
(***************************************************************************)
C1_Remembered == calls = <<>> => currentExpandedRef = LastApplied
C1_Step ==
  /\ Issues => RefOf(NewCommand.expanded) # LastApplied
  /\ Suppressed /\ last'.status = "same" =>
       /\ RefOf(last'.expanded) = LastApplied
       /\ calls' = calls
       /\ currentExpandedRef' = currentExpandedRef
  /\ Issues /\ NewCommand.expanded =>
       ~(last.expanded /\ last.status \in {"ok", "same"})
C1_IssuedOnlyOnChange == []C1_Remembered /\ [][C1_Step]_vars

\* resizeWindow(true) was called after the window had been expanded, and was skipped
C1_Witness ==
  /\ last = [expanded |-> TRUE, origin |-> "api", status |-> "same"]
  /\ hostHeight = 600
  /\ currentExpandedRef = "true"

(***************************************************************************)
(* C2.  No collapse command is issued while an overlay element is in the   *)
(* DOM: resizeWindow(false) then returns at line 22 without a command and  *)
(* without touching the ref, whoever calls it and whatever the ref holds.  *)
(***************************************************************************)
C2_Step ==
  /\ Issues /\ (~NewCommand.expanded \/ NewCommand.height = 54) => popovers = 0
  /\ Suppressed /\ last'.status = "overlay" =>
       /\ popovers > 0
       /\ ~last'.expanded
       /\ calls' = calls
       /\ currentExpandedRef' = currentExpandedRef
  /\ popovers > 0 /\ (\E h \in 1..Len(timers) : timers' = RemoveAt(timers, h)) =>
       calls' = calls
C2_NoCollapseUnderOverlay == [][C2_Step]_vars

\* a direct resizeWindow(false) was refused under an overlay while expanded
C2_Witness ==
  /\ last = [expanded |-> FALSE, origin |-> "api", status |-> "overlay"]
  /\ popovers > 0
  /\ currentExpandedRef = "true"

(***************************************************************************)
(* C3.  A call that neither guard stops issues exactly one command, with   *)
(* height 600 for expanded and 54 for collapsed, and when that command     *)
(* succeeds the ref becomes the requested state.                           *)
(***************************************************************************)
C3_Step ==
  /\ Issues =>
       /\ last'.status = "sent"
       /\ calls' = Append(calls, [expanded |-> last'.expanded, status |-> "sent",
                                  height |-> IF last'.expanded THEN 600 ELSE 54])
  /\ Suppressed =>
       \/ ~last'.expanded /\ popovers > 0
       \/ currentExpandedRef = RefOf(last'.expanded)
  /\ \A i \in 1..Len(calls) :
       Resolves(i) => currentExpandedRef' = RefOf(calls[i].expanded)
C3_OneCommandPerCall == [][C3_Step]_vars

\* a collapse went through: command of height 54 applied, ref now collapsed
C3_Witness ==
  /\ last = [expanded |-> FALSE, origin |-> "api", status |-> "ok"]
  /\ hostHeight = 54
  /\ currentExpandedRef = "false"

(***************************************************************************)
(* C4.  (calls one after another) When the host command rejects, the call  *)
(* ends caught: nothing escapes resizeWindow, the ref still holds the      *)
(* value it held before the call, and the next call with the same target,  *)
(* unless the overlay guard stops it, issues the command again.            *)
(***************************************************************************)
C4_Caught == last.status # "escaped"
C4_Retryable == last.status = "err" => currentExpandedRef # RefOf(last.expanded)
C4_Step ==
  /\ \A i \in 1..Len(calls) :
       Rejects(i) => currentExpandedRef' = currentExpandedRef /\ hostHeight' = hostHeight
  /\ calls # <<>> /\ calls' # <<>> => currentExpandedRef' = currentExpandedRef
  /\ /\ last.status = "err"
     /\ last'.expanded = last.expanded
     /\ Issues \/ Suppressed
     /\ last.expanded \/ popovers = 0
     => Issues /\ NewCommand.height = (IF last.expanded THEN 600 ELSE 54)
C5_Step ==
  effect = "unmounted" => ~(Issues /\ last'.origin \in {"drag", "debounce"})
C5_QuietAfterUnmount == [][C5_Step]_vars

(***************************************************************************)
(* C6.  Once the view is unmounted and the subscription has been           *)
(* established, the subscription is cancelled: the host holds no active    *)
(* listener of this mount, in whichever order unmount and the resolution   *)
(* of onFocusChanged came.                                                 *)
(***************************************************************************)
C6_NoLeakedSubscription ==
  focusEffect = "unmounted" /\ setup = "resolved" => ~subscribed /\ unlistenCalls = 1

(***************************************************************************)
(* C7.  A pointer-up that ends a drag arms one timer; its callback runs no *)
(* earlier than 100 ms later; if no overlay is in the DOM when it runs and *)
(* the ref holds expanded, it issues exactly one command, of height 54; if *)
(* an overlay is in the DOM when it runs, it makes no call at all.         *)
(***************************************************************************)
C7_Step ==
  /\ isDragging /\ ~isDragging' =>
       timers' = Append(timers, [kind |-> "drag", age |-> 0, held |-> FALSE])
  /\ \A h \in 1..Len(timers) :
       Fires(h, "drag") =>
         /\ timers[h].age >= 100
         /\ popovers = 0 /\ currentExpandedRef = "true" =>
              /\ calls' = Append(calls, [expanded |-> FALSE, status |-> "sent",
                                         height |-> 54])
              /\ last' = [expanded |-> FALSE, origin |-> "drag", status |-> "sent"]
         /\ popovers > 0 => calls' = calls /\ last' = last
C7_DragReleaseCollapses == [][C7_Step]_vars

\* the callback of a drag timer has just issued the collapse of an expanded window
C7_Witness ==
  /\ last = [expanded |-> FALSE, origin |-> "drag", status |-> "sent"]
  /\ currentExpandedRef = "true"
  /\ hostHeight = 600
  /\ calls = <<[expanded |-> FALSE, status |-> "sent", height |-> 54]>>

(***************************************************************************)
(* C8.  At most one debounce timer is pending, and it is as old as the     *)
(* last mutation batch: every batch cancels the pending debounce timer and *)
(* arms a new one, so a debounce callback runs no earlier than 150 ms      *)
(* after the last batch of a burst, and once for the burst.                *)
(***************************************************************************)
C8_OnePending ==
  /\ Len(DebounceTimers(timers)) <= 1
  /\ \A h \in 1..Len(timers) :
       timers[h].kind = "debounce" => timers[h].age = sinceBatch /\ timers[h].held
C8_Step ==
  /\ BatchStep =>
       /\ DebounceTimers(timers') = <<[kind |-> "debounce", age |-> 0, held |-> TRUE]>>
       /\ DragTimers(timers') = DragTimers(timers)
  /\ \A h \in 1..Len(timers) :
       Fires(h, "debounce") =>
         /\ timers[h].age >= 150
         /\ sinceBatch >= 150
         /\ DebounceTimers(timers') = <<>>
C8_DebounceFromLastBatch == []C8_OnePending /\ [][C8_Step]_vars

\* a burst of batches has been answered by one collapse request, made by the
\* timer of the last batch
C8_Witness ==
  /\ burst = 2
  /\ sinceBatch = 150
  /\ effect = "mounted"
  /\ DebounceTimers(timers) = <<>>
  /\ last = [expanded |-> FALSE, origin |-> "debounce", status |-> "sent"]

(***************************************************************************)
(* C9.  The callbacks invoked are, in order, one per delivered             *)
(* notification whose callback is provided: onFocusGained for payload      *)
(* true, onFocusLost for payload false, nothing for a notification whose   *)
(* callback is absent.                                                     *)
(***************************************************************************)
RECURSIVE ExpectedCallbacks(_)
ExpectedCallbacks(ns) ==
  IF ns = <<>> THEN <<>>
  ELSE LET n == Head(ns)
       IN  (IF n /\ onFocusGained THEN <<"gained">>
            ELSE IF ~n /\ onFocusLost THEN <<"lost">>
            ELSE <<>>) \o ExpectedCallbacks(Tail(ns))

C9_OneCallbackPerNotification ==
  /\ invoked = ExpectedCallbacks(notes)
  /\ Len(invoked) <= Len(notes)
  /\ onFocusGained /\ onFocusLost => Len(invoked) = Len(notes)

\* three notifications, the middle one without a callback
C9_Witness ==
  /\ onFocusGained /\ ~onFocusLost
  /\ notes = <<TRUE, FALSE, TRUE>>
  /\ invoked = <<"gained", "gained">>

(***************************************************************************)
(* C10.  A failed subscription setup is swallowed and stays failed: no     *)
(* notification reaches a callback, onFocusChanged is not called a second  *)
(* time, and the cleanup calls no unlisten function.                       *)
(***************************************************************************)
C10_FailedSetupIsInert ==
  /\ setup # "escaped"
  /\ subscribeCalls <= 1
  /\ setup = "failed" =>
       /\ notes = <<>>
       /\ invoked = <<>>
       /\ ~subscribed
       /\ unlisten = "null"
       /\ unlistenCalls = 0

\* onFocusChanged rejected and the view has unmounted since
C10_Witness ==
  /\ setup = "failed"
  /\ subscribeCalls = 1
  /\ focusEffect = "unmounted"

(***************************************************************************)
(* C11.  The drag-release delay and the mutation debounce share one        *)
(* pending-timer slot: a new triggering event (a drag release or a         *)
(* mutation batch) cancels every timer that was pending, so at most one    *)
(* timer is pending at any time and the timer armed by a trigger is then   *)
(* the only one.                                                           *)
(***************************************************************************)
C11_Arms ==
  /\ timers' # timers
  /\ Len(timers') >= Len(timers)
  /\ timers'[Len(timers')].age = 0
C11_Step == C11_Arms => Len(timers') = 1
C11_SingleTimerSlot == [](Len(timers) <= 1) /\ [][C11_Step]_vars

(***************************************************************************)
(* C12.  At most one host command is in flight: a resizeWindow call made   *)
(* while the command of an earlier call has not resolved issues no second  *)
(* command, in particular none with the target of the one in flight.       *)
(***************************************************************************)
C12_Step ==
  Issues => \A i \in 1..Len(calls) : calls[i].expanded # NewCommand.expanded
C12_OneCommandInFlight == [](Len(calls) <= 1) /\ [][C12_Step]_vars

(***************************************************************************)
(* C13.  (no caller after the cleanup) The result of a host command that   *)
(* resolves or rejects after the effect cleanup is ignored: the call ends  *)
(* without an exception and the ref keeps the value it held at the         *)
(* cleanup.                                                                *)
(***************************************************************************)
C13_Step ==
  effect = "unmounted" =>
    /\ currentExpandedRef' = currentExpandedRef
    /\ last'.status # "escaped"
C13_ResultIgnoredAfterUnmount == [][C13_Step]_vars

(***************************************************************************)
(* C14.  While the observer is connected, the mutations that reset the     *)
(* debounce timer are exactly: a child-list change of document.body        *)
(* itself, and a change of the data-state attribute of document.body or of *)
(* any descendant of it; every other mutation leaves the timers alone.     *)
(***************************************************************************)
C14_InScope(m) ==
  \/ m.type = "childList" /\ m.onBody
  \/ m.type = "attributes" /\ m.attr = "data-state"
C14_Step ==
  mutation' # mutation /\ effect = "mounted" =>
    IF C14_InScope(mutation')
    THEN /\ DebounceTimers(timers') = <<[kind |-> "debounce", age |-> 0, held |-> TRUE]>>
         /\ sinceBatch' = 0
    ELSE timers' = timers /\ sinceBatch' = sinceBatch
C14_ObservedMutations == [][C14_Step]_vars

(***************************************************************************)
(* C15.  The dragging flag is raised by a pointer-down (which does nothing *)
(* else) and lowered by the next pointer-up, whether or not an overlay is  *)
(* in the DOM and whatever resizeWindow calls are under way; a pointer-up  *)
(* arms a drag timer exactly when the flag is raised, and arms one: with   *)
(* the flag down it arms nothing, and since it lowers the flag one         *)
(* drag-region pointer-down arms at most one timer.                        *)
(***************************************************************************)
C15_Clears ==
  isDragging /\ effect = "mounted" /\ Outstanding < MaxPending =>
    ENABLED (MouseUp /\ ~isDragging')
C15_Step ==
  /\ ~isDragging /\ isDragging' =>
       /\ effect = "mounted"
       /\ UNCHANGED <<timers, calls, currentExpandedRef, debounceTimeout, last>>
  /\ isDragging /\ ~isDragging' =>
       /\ timers' = Append(timers, [kind |-> "drag", age |-> 0, held |-> FALSE])
       /\ UNCHANGED <<calls, currentExpandedRef, debounceTimeout, last>>
  /\ Len(DragTimers(timers')) > Len(DragTimers(timers)) =>
       /\ isDragging /\ ~isDragging'
       /\ Len(DragTimers(timers')) = Len(DragTimers(timers)) + 1
C16_Quiet ==
  /\ effect = "mounted"
  /\ popovers = 0
  /\ \A h \in 1..Len(timers) : timers[h].age > 0
C16_Triggered ==
  /\ C16_Quiet
  /\ timers # <<>>
  /\ currentExpandedRef # "false"
C16_Collapsing ==
  \E i \in 1..Len(calls) : ~calls[i].expanded /\ calls[i].height = 54
C16_Accepted ==
  \E i \in 1..Len(calls) : ~calls[i].expanded /\ calls[i].status = "applied"
C17_RefAgreesWithHost ==
  calls = <<>> /\ currentExpandedRef # "null" =>
    /\ currentExpandedRef = "true" <=> hostHeight = 600
    /\ currentExpandedRef = "false" <=> hostHeight = 54

(***************************************************************************)
(* C18.  The timer callbacks only ever request the collapsed state: a step *)
(* that runs a timer callback issues no command or one of height 54 and    *)
(* leaves the ref alone; a command of height 600 is issued only by a step  *)
(* in which a caller of the hook invokes resizeWindow(true); and the ref   *)
(* becomes expanded only when such a command resolves.  Hence pointer      *)
(* events, DOM mutations and timer firings alone never issue a command of  *)
(* height 600 nor make the ref expanded.                                   *)
(***************************************************************************)
C18_Step ==
  /\ \A h \in 1..Len(timers) :
       Fires(h, "drag") \/ Fires(h, "debounce") =>
         /\ calls' # calls =>
              calls' = Append(calls, [expanded |-> FALSE, status |-> "sent",
                                      height |-> 54])
         /\ currentExpandedRef' = currentExpandedRef
         /\ hostHeight' = hostHeight
  /\ last' # last /\ last'.origin \in {"drag", "debounce"} => ~last'.expanded
  /\ Issues /\ (NewCommand.expanded \/ NewCommand.height = 600) =>
       /\ last'.origin = "api" /\ last'.expanded
       /\ timers' = timers
  /\ currentExpandedRef' = "true" /\ currentExpandedRef # "true" =>
       \E i \in 1..Len(calls) :
         Resolves(i) /\ calls[i].expanded /\ calls[i].height = 600
C18_NoExpand ==
  /\ \A i \in 1..Len(calls) : calls[i].expanded <=> calls[i].height = 600
  /\ last.origin = "none" => calls = <<>> /\ hostHeight = 0
C18_InternalTriggersOnlyCollapse == []C18_NoExpand /\ [][C18_Step]_vars

\* a debounce callback has issued a collapse while an expand requested by a
\* caller was in flight
C18_Witness ==
  /\ last = [expanded |-> FALSE, origin |-> "debounce", status |-> "sent"]
  /\ Len(calls) = 2
  /\ calls[1].expanded /\ calls[1].height = 600
  /\ ~calls[2].expanded /\ calls[2].height = 54

(***************************************************************************)
(* C19.  The ref starts null, neither expanded nor collapsed: while it is  *)
(* null the same-state guard stops no call, so a call the overlay guard    *)
(* does not stop issues its command, whichever the target; in particular a *)
(* timer callback that runs with no overlay in the DOM issues a command of *)
(* height 54 although the window was never expanded.  The ref stops being  *)
(* null only when a command resolves, and never becomes null again.        *)
(***************************************************************************)
C19_Unknown == hostHeight = 0 \/ last.origin = "none" => currentExpandedRef = "null"
C19_Step ==
  /\ currentExpandedRef = "null" /\ Suppressed =>
       last'.status = "overlay" /\ ~last'.expanded /\ popovers > 0
  /\ \A h \in 1..Len(timers) :
       /\ Fires(h, "drag") \/ Fires(h, "debounce")
       /\ currentExpandedRef = "null"
       /\ popovers = 0
       => calls' = Append(calls, [expanded |-> FALSE, status |-> "sent",
                                  height |-> 54])
  /\ currentExpandedRef # "null" => currentExpandedRef' # "null"
  /\ currentExpandedRef = "null" /\ currentExpandedRef' # "null" =>
       \E i \in 1..Len(calls) :
         Resolves(i) /\ currentExpandedRef' = RefOf(calls[i].expanded)
C19_InitiallyUnknown == []C19_Unknown /\ [][C19_Step]_vars

\* in a fresh session the callback of a drag timer has issued a collapse
C19_Witness ==
  /\ last = [expanded |-> FALSE, origin |-> "drag", status |-> "sent"]
  /\ currentExpandedRef = "null"
  /\ hostHeight = 0
  /\ calls = <<[expanded |-> FALSE, status |-> "sent", height |-> 54]>>

====
